---------------------------- MODULE Spec2Model ----------------------------
(***************************************************************************)
(* URL validation (app/services/url_validator.py) and QR code generation   *)
(* (app/services/qr_generator.py) of QR Code Genius.                       *)
(*                                                                         *)
(* A Python string is a sequence of atoms.  An atom is either one of the   *)
(* characters that the URL grammar treats specially (Delims) or a word: a  *)
(* run of characters none of which is a delimiter.  Every word is an ASCII *)
(* string that names the run it stands for; its real length, lower-case    *)
(* form, digit value and IDNA image are given by the tables below.         *)
(*   "b{uuml}cher"  is  b, U+00FC, c, h, e, r                              *)
(*   "{fw127}"      is  U+FF11 U+FF12 U+FF17 (full-width digits 1 2 7)     *)
(*   "com{NUL}"     is  c, o, m, U+0000                                    *)
(*   "a{x2029}"     is  the letter a repeated 2029 times                   *)
(* A Python value is a record [ty, s]: ty is the type name and s the atoms *)
(* of a str (empty for every other type).                                  *)
(***************************************************************************)
EXTENDS Integers, Sequences, FiniteSets, TLC

Delims == {":", "/", "?", "#", "@", "[", "]", "."}

DigitWords == {"0", "1", "10", "127", "168", "192", "8080", "99999"}

UpperWords == {"HTTP", "EXAMPLE"}

LowerWords == {"http", "https", "ftp", "javascript", "file", "example", "com",
               "de", "localhost", "u", "p", "top", "xn--bcher-kva",
               "a{x2029}", "a{x2030}"}

OtherWords == {"b{uuml}cher", "{fw127}", "com{NUL}", "q=1"}

Words == DigitWords \cup UpperWords \cup LowerWords \cup OtherWords

Atoms == Delims \cup Words

\* len() of one atom
AtomLen(a) ==
  CASE a \in Delims -> 1
    [] a \in {"0", "1", "u", "p"} -> 1
    [] a \in {"10", "de"} -> 2
    [] a \in {"127", "168", "192", "ftp", "com", "top", "{fw127}", "q=1"} -> 3
    [] a \in {"8080", "http", "HTTP", "file", "com{NUL}"} -> 4
    [] a \in {"99999", "https"} -> 5
    [] a = "b{uuml}cher" -> 6
    [] a \in {"example", "EXAMPLE"} -> 7
    [] a = "localhost" -> 9
    [] a = "javascript" -> 10
    [] a = "xn--bcher-kva" -> 13
    [] a = "a{x2029}" -> 2029
    [] a = "a{x2030}" -> 2030

\* int() of an ASCII digit word
NumVal(a) ==
  CASE a = "0" -> 0 [] a = "1" -> 1 [] a = "10" -> 10 [] a = "127" -> 127
    [] a = "168" -> 168 [] a = "192" -> 192 [] a = "8080" -> 8080
    [] a = "99999" -> 99999

\* str() of an int: the digit word without leading zeros that denotes n
IntStr(n) == CHOOSE a \in DigitWords : NumVal(a) = n

\* str.lower() of one atom
LowerAtom(a) ==
  CASE a = "HTTP" -> "http" [] a = "EXAMPLE" -> "example" [] OTHER -> a

\* every character is in urllib.parse.scheme_chars (ASCII letters, digits, + - .)
IsSchemeChars(a) == a = "." \/ a \in (Words \ OtherWords)

\* the first character is an ASCII letter
IsAsciiAlphaStart(a) == a \in (UpperWords \cup LowerWords) \/ a \in {"b{uuml}cher", "com{NUL}", "q=1"}

RECURSIVE StrLen(_)
StrLen(s) == IF s = <<>> THEN 0 ELSE AtomLen(Head(s)) + StrLen(Tail(s))

str_lower(s) == [i \in 1..Len(s) |-> LowerAtom(s[i])]

Take(s, n) == SubSeq(s, 1, n)

Drop(s, n) == SubSeq(s, n + 1, Len(s))

\* str.find for a set of one-character strings: the first index, 0 when absent
Find(s, S) ==
  IF \E i \in 1..Len(s) : s[i] \in S
  THEN CHOOSE i \in 1..Len(s) : s[i] \in S /\ \A j \in 1..(i - 1) : s[j] \notin S
  ELSE 0

\* str.rfind: the last index, 0 when absent
RFind(s, S) ==
  IF \E i \in 1..Len(s) : s[i] \in S
  THEN CHOOSE i \in 1..Len(s) : s[i] \in S /\ \A j \in (i + 1)..Len(s) : s[j] \notin S
  ELSE 0

Contains(s, a) == \E i \in 1..Len(s) : s[i] = a

Str(s) == [ty |-> "str", s |-> s]

None == [ty |-> "NoneType", s |-> <<>>]

(***************************************************************************)
(* urllib.parse.urlparse as called at url_validator.py:91,97,103.          *)
(***************************************************************************)

\* urlsplit raises ValueError("Invalid IPv6 URL")
BracketMismatch(netloc) ==
  \/ Contains(netloc, "[") /\ ~Contains(netloc, "]")
  \/ Contains(netloc, "]") /\ ~Contains(netloc, "[")

\* the index of the ':' that ends the scheme, 0 when the URL has no scheme
SchemeEnd(url) ==
  LET i == Find(url, {":"})
  IN  IF /\ i > 1
         /\ IsAsciiAlphaStart(url[1])
         /\ \A k \in 1..(i - 1) : IsSchemeChars(url[k])
      THEN i ELSE 0

\* the URL starts with "//"
HasNetloc(u) == Len(u) >= 2 /\ u[1] = "/" /\ u[2] = "/"

\* s[:i] for the first delimiter of S at index i + 1; all of s when none
Before(s, S) == IF Find(s, S) = 0 THEN s ELSE Take(s, Find(s, S) - 1)

\* s[i:] from the first delimiter of S on; empty when none
From(s, S) == IF Find(s, S) = 0 THEN <<>> ELSE Drop(s, Find(s, S) - 1)

\* s[i+1:] after the first delimiter of S; empty when none
After(s, S) == IF Find(s, S) = 0 THEN <<>> ELSE Drop(s, Find(s, S))

\* urlsplit after the scheme and the netloc are cut off: fragment, then query
SplitRest(scheme, netloc, rest) ==
  [raises |-> BracketMismatch(netloc),
   scheme |-> scheme,
   netloc |-> netloc,
   path |-> Before(Before(rest, {"#"}), {"?"}),
   params |-> <<>>,
   query |-> After(Before(rest, {"#"}), {"?"}),
   fragment |-> After(rest, {"#"})]

\* urlsplit after the scheme is cut off: the netloc runs to the first / ? #
SplitNetloc(scheme, u) ==
  IF HasNetloc(u)
  THEN SplitRest(scheme, Before(Drop(u, 2), {"/", "?", "#"}), From(Drop(u, 2), {"/", "?", "#"}))
  ELSE SplitRest(scheme, <<>>, u)

SplitScheme(url, i) ==
  IF i > 0 THEN SplitNetloc(str_lower(Take(url, i - 1)), Drop(url, i))
  ELSE SplitNetloc(<<>>, url)

urlparse(url) == SplitScheme(url, SchemeEnd(url))

\* from "[" on: the bracketed host and the port after "]"
BracketHost(br) ==
  [hostname |-> Before(br, {"]"}), port |-> After(After(br, {"]"}), {":"})]

\* the part of the netloc after the userinfo
HostPort(hp) ==
  IF Find(hp, {"["}) > 0 THEN BracketHost(After(hp, {"["}))
  ELSE [hostname |-> Before(hp, {":"}), port |-> After(hp, {":"})]

\* SplitResult._hostinfo: (hostname, port) before lower-casing and int()
hostinfo(netloc) == HostPort(Drop(netloc, RFind(netloc, {"@"})))

\* ParseResult.hostname; None is the empty sequence
hostname(p) == str_lower(hostinfo(p.netloc).hostname)

\* int(port) and the range check
PortOf(ps) ==
  IF ps = <<>> THEN [raises |-> FALSE, isNone |-> TRUE, n |-> 0]
  ELSE IF ~(Len(ps) = 1 /\ ps[1] \in DigitWords) THEN [raises |-> TRUE, isNone |-> FALSE, n |-> 0]
  ELSE IF NumVal(ps[1]) > 65535 THEN [raises |-> TRUE, isNone |-> FALSE, n |-> 0]
  ELSE [raises |-> FALSE, isNone |-> FALSE, n |-> NumVal(ps[1])]

\* ParseResult.port: [raises, isNone, n]
port(p) == PortOf(hostinfo(p.netloc).port)

\* urlunsplit: "//" netloc path
WithNetloc(netloc, path) ==
  <<"/", "/">> \o netloc \o (IF path # <<>> /\ path[1] # "/" THEN <<"/">> \o path ELSE path)

\* urlunsplit: scheme ":" url
WithSchemePart(scheme, u) == IF scheme # <<>> THEN scheme \o <<":">> \o u ELSE u

\* urlunsplit: url "?" query "#" fragment
WithQueryFragment(u, query, fragment) ==
  (IF query # <<>> THEN u \o <<"?">> \o query ELSE u) \o
  (IF fragment # <<>> THEN <<"#">> \o fragment ELSE <<>>)

\* urllib.parse.urlunparse as called at url_validator.py:150
urlunparse(p) ==
  WithQueryFragment(
    WithSchemePart(p.scheme,
      IF p.netloc # <<>> \/ (p.scheme \in {<<"http">>, <<"https">>, <<"ftp">>, <<"file">>}
                             /\ ~HasNetloc(p.path))
      THEN WithNetloc(p.netloc, p.path)
      ELSE p.path),
    p.query, p.fragment)

(***************************************************************************)
(* idna.encode(hostname, uts46=True) as called at url_validator.py:124.    *)
(***************************************************************************)

RECURSIVE SplitDots(_)
\* str.split('.')
SplitDots(s) ==
  LET d == Find(s, {"."})
  IN  IF d = 0 THEN <<s>> ELSE <<Take(s, d - 1)>> \o SplitDots(Drop(s, d))

RECURSIVE JoinDots(_)
\* '.'.join(labels)
JoinDots(labels) ==
  IF Len(labels) = 0 THEN <<>>
  ELSE IF Len(labels) = 1 THEN labels[1]
  ELSE labels[1] \o <<".">> \o JoinDots(Tail(labels))

\* UTS46 mapping of one word: case folding and width folding
Uts46Map(a) == IF a = "{fw127}" THEN "127" ELSE LowerAtom(a)

\* the A-label of one mapped word
ALabel(a) == IF a = "b{uuml}cher" THEN "xn--bcher-kva" ELSE a

\* idna.alabel raises IDNAError for this label: it is empty, holds a code
\* point that is not PVALID (a delimiter, NUL, '='), or is longer than 63
LabelInvalid(l) ==
  \/ Len(l) # 1
  \/ l[1] \in Delims
  \/ l[1] \in {"com{NUL}", "q=1"}
  \/ AtomLen(ALabel(Uts46Map(l[1]))) > 63

\* the labels without the empty last label that a trailing dot leaves
DropTrailing(all) == IF all[Len(all)] = <<>> THEN Take(all, Len(all) - 1) ELSE all

\* the encoded labels joined again, with the trailing dot when there was one
EncodeLabels(labels, trailing) ==
  JoinDots([i \in 1..(Len(labels) + (IF trailing THEN 1 ELSE 0)) |->
              IF i > Len(labels) THEN <<>> ELSE <<ALabel(Uts46Map(labels[i][1]))>>])

\* the check of the length of the whole name
CheckDomainLen(joined, trailing) ==
  IF StrLen(joined) > (IF trailing THEN 254 ELSE 253)
  THEN [ok |-> FALSE, value |-> <<>>]
  ELSE [ok |-> TRUE, value |-> joined]

EncodeSplit(h, labels, trailing) ==
  IF h = <<>> \/ h = <<".">> \/ \E i \in 1..Len(labels) : LabelInvalid(labels[i])
  THEN [ok |-> FALSE, value |-> <<>>]
  ELSE CheckDomainLen(EncodeLabels(labels, trailing), trailing)

\* [ok, value]: ok = FALSE stands for idna.IDNAError
idna_encode(h) ==
  EncodeSplit(h, DropTrailing(SplitDots(h)), h # <<>> /\ h[Len(h)] = ".")

(***************************************************************************)
(* ipaddress.ip_address and is_private / is_loopback / is_link_local.      *)
(***************************************************************************)

\* the string is a dotted quad that ipaddress.IPv4Address accepts
IsIPv4(h) ==
  /\ Len(h) = 7
  /\ h[2] = "." /\ h[4] = "." /\ h[6] = "."
  /\ \A i \in {1, 3, 5, 7} : h[i] \in DigitWords /\ AtomLen(h[i]) <= 3 /\ NumVal(h[i]) <= 255

\* the string is "::" or "::g" with g one group of hex digits
IsIPv6(h) ==
  /\ Len(h) \in {2, 3}
  /\ h[1] = ":" /\ h[2] = ":"
  /\ Len(h) = 3 => (h[3] \in DigitWords /\ AtomLen(h[3]) <= 4)

IPv4Private(a, b, c, d) ==
  \/ a = 0
  \/ a = 10
  \/ a = 127
  \/ a = 169 /\ b = 254
  \/ a = 172 /\ b >= 16 /\ b <= 31
  \/ a = 192 /\ b = 0 /\ c = 0 /\ (d <= 7 \/ d \in {170, 171})
  \/ a = 192 /\ b = 0 /\ c = 2
  \/ a = 192 /\ b = 168
  \/ a = 198 /\ b \in {18, 19}
  \/ a = 198 /\ b = 51 /\ c = 100
  \/ a = 203 /\ b = 0 /\ c = 113
  \/ a >= 240

is_private(h) ==
  \/ IsIPv4(h) /\ IPv4Private(NumVal(h[1]), NumVal(h[3]), NumVal(h[5]), NumVal(h[7]))
  \/ IsIPv6(h) /\ (Len(h) = 2 \/ h[3] = "1")

is_loopback(h) ==
  \/ IsIPv4(h) /\ NumVal(h[1]) = 127
  \/ IsIPv6(h) /\ Len(h) = 3 /\ h[3] = "1"

is_link_local(h) == IsIPv4(h) /\ NumVal(h[1]) = 169 /\ NumVal(h[3]) = 254

\* a variant that tests is_loopback only
_is_private_ip_LoopbackOnly(ip_address_str) ==
  IF IsIPv4(ip_address_str) \/ IsIPv6(ip_address_str)
  THEN is_loopback(ip_address_str)
  ELSE FALSE

_is_private_ip(ip_address_str) ==
  IF IsIPv4(ip_address_str) \/ IsIPv6(ip_address_str)
  THEN is_private(ip_address_str) \/ is_loopback(ip_address_str)
  ELSE FALSE

(***************************************************************************)
(* URLValidator.validate_url                                               *)
(***************************************************************************)

MAX_URL_LENGTH == 2048

ALLOWED_SCHEMES == {<<"http">>, <<"https">>}

Raise(kind, reason) == [kind |-> kind, reason |-> reason, value |-> <<>>]

Return(v) == [kind |-> "ok", reason |-> "", value |-> v]

HttpPrefix == <<"http", ":", "/", "/">>

\* a variant without the second branch (lines 98-103)
SynthUrl_NetlocOnly(url, p0) ==
  IF p0.scheme = <<>> /\ p0.netloc # <<>> /\ Contains(p0.netloc, ".")
  THEN HttpPrefix \o url
  ELSE url

\* lines 93-103: the URL that is parsed after the optional scheme synthesis
SynthUrl(url, p0) ==
  IF p0.scheme = <<>> /\ p0.netloc # <<>> /\ Contains(p0.netloc, ".")
  THEN HttpPrefix \o url
  ELSE IF p0.scheme = <<>> /\ p0.netloc = <<>> /\ p0.path # <<>> /\ Contains(p0.path, ".")
  THEN HttpPrefix \o p0.path
  ELSE url

\* lines 126-132: the netloc is rebuilt from the converted host and the port
ReplaceNetloc(p, host, pt) ==
  IF pt.raises THEN [kind |-> "hostname_processing", p |-> p]
  ELSE [kind |-> "ok",
        p |-> [p EXCEPT !.netloc = IF ~pt.isNone /\ pt.n # 0
                                   THEN host \o <<":", IntStr(pt.n)>>
                                   ELSE host]]

\* a variant that converts the host but leaves the raw host in parsed_url
IdnStep_KeepsRawHost(p, h, enc) ==
  IF ~enc.ok THEN [kind |-> "idn", p |-> p]
  ELSE [kind |-> "ok", p |-> p]

\* lines 121-137: [kind, p] where p is parsed_url after the IDN step, for
\* the hostname h and the result enc of idna.encode
IdnStep(p, h, enc) ==
  IF ~enc.ok THEN [kind |-> "idn", p |-> p]
  ELSE IF enc.value = h THEN [kind |-> "ok", p |-> p]
  ELSE ReplaceNetloc(p, enc.value, port(p))

\* lines 150-156
Reassemble(normalized_url) ==
  IF normalized_url = <<>> THEN Raise("InvalidURLError", "normalized_empty")
  ELSE Return(normalized_url)

\* a variant that also refuses the name localhost
Finish_BlocksLocalhost(p) ==
  IF _is_private_ip(hostname(p)) \/ hostname(p) = <<"localhost">>
  THEN Raise("InvalidURLError", "private")
  ELSE Reassemble(urlunparse([p EXCEPT !.scheme = str_lower(p.scheme)]))

\* lines 139-156
Finish(p) ==
  IF _is_private_ip(hostname(p)) THEN Raise("InvalidURLError", "private")
  ELSE Reassemble(urlunparse([p EXCEPT !.scheme = str_lower(p.scheme)]))

\* lines 121-156
AfterIdn(idn) ==
  IF idn.kind # "ok" THEN Raise("InvalidURLError", idn.kind) ELSE Finish(idn.p)

\* lines 115-156
CheckHost(parsed_url, h) ==
  IF h = <<>> THEN Raise("InvalidURLError", "hostname")
  ELSE AfterIdn(IdnStep(parsed_url, h, idna_encode(h)))

\* lines 105-156
CheckParsed(parsed_url) ==
  IF parsed_url.raises THEN Raise("ValueError", "urlparse")
  ELSE IF parsed_url.scheme = <<>> \/ parsed_url.netloc = <<>>
  THEN Raise("InvalidURLError", "malformed")
  ELSE IF str_lower(parsed_url.scheme) \notin ALLOWED_SCHEMES
  THEN Raise("InvalidURLError", "scheme")
  ELSE CheckHost(parsed_url, hostname(parsed_url))

\* lines 91-156
ParseAndCheck(s, p0) ==
  IF p0.raises THEN Raise("ValueError", "urlparse")
  ELSE CheckParsed(urlparse(SynthUrl(s, p0)))

\* a variant whose length check also rejects MAX_URL_LENGTH itself
validate_url_LengthInclusive(url) ==
  IF url.ty # "str" \/ url.s = <<>> THEN Raise("InvalidURLError", "empty")
  ELSE IF StrLen(url.s) >= MAX_URL_LENGTH THEN Raise("InvalidURLError", "length")
  ELSE ParseAndCheck(url.s, urlparse(url.s))

\* lines 80-156
validate_url(url) ==
  IF url.ty # "str" \/ url.s = <<>> THEN Raise("InvalidURLError", "empty")
  ELSE IF StrLen(url.s) > MAX_URL_LENGTH THEN Raise("InvalidURLError", "length")
  ELSE ParseAndCheck(url.s, urlparse(url.s))

(***************************************************************************)
(* QRGeneratorService._validate_url: re.match of url_regex (IGNORECASE).   *)
(***************************************************************************)

\* words made of ASCII letters, digits and hyphens only
LdhWords == Words \ OtherWords

\* words that \d+ matches: ASCII and other Unicode decimal digits
ReDigitWords == DigitWords \cup {"{fw127}"}

\* [A-Z0-9](?:[A-Z0-9-]{0,61}[A-Z0-9])?
ReLabel(a) == a \in LdhWords /\ AtomLen(a) <= 63

\* [A-Z]{2,6}|[A-Z0-9-]{2,}
ReTld(a) == a \in LdhWords /\ AtomLen(a) >= 2

\* (?:label\.)+(?:tld\.?)
ReDomain(h) ==
  LET n == Len(h)
      hh == IF n > 0 /\ h[n] = "." THEN Take(h, n - 1) ELSE h
      m == Len(hh)
  IN  /\ m >= 3 /\ m % 2 = 1
      /\ \A i \in 1..m : IF i % 2 = 0 THEN hh[i] = "."
                         ELSE IF i = m THEN ReTld(hh[i]) ELSE ReLabel(hh[i])

\* \d{1,3}\.\d{1,3}\.\d{1,3}\.\d{1,3}
ReIp(h) ==
  /\ Len(h) = 7
  /\ h[2] = "." /\ h[4] = "." /\ h[6] = "."
  /\ \A i \in {1, 3, 5, 7} : h[i] \in ReDigitWords /\ AtomLen(h[i]) <= 3

ReHost(h) == ReDomain(h) \/ (Len(h) = 1 /\ LowerAtom(h[1]) = "localhost") \/ ReIp(h)

\* (?::\d+)?(?:/?|[/?]\S+)$
ReTail(t) ==
  LET hasPort == Len(t) >= 2 /\ t[1] = ":" /\ t[2] \in ReDigitWords
      MatchPath(r) == \/ r = <<>>
                      \/ r = <<"/">>
                      \/ Len(r) >= 2 /\ r[1] \in {"/", "?"}
  IN  MatchPath(t) \/ (hasPort /\ MatchPath(Drop(t, 2)))

_validate_url(s) ==
  /\ Len(s) >= 4
  /\ LowerAtom(s[1]) \in {"http", "https", "ftp", "ftps"}
  /\ s[2] = ":" /\ s[3] = "/" /\ s[4] = "/"
  /\ \E h \in 1..(Len(s) - 4) : ReHost(SubSeq(s, 5, 4 + h)) /\ ReTail(Drop(s, 4 + h))

(***************************************************************************)
(* QRGeneratorService.generate_qr_code: arguments, images, files.          *)
(***************************************************************************)

SUPPORTED_QR_FORMATS == {<<"PNG">>, <<"SVG">>}

\* a variant that compares the format as given
str_upper_AsGiven(f) == f

\* str.upper() of a format argument
str_upper(f) ==
  IF f = <<"png">> THEN <<"PNG">>
  ELSE IF f \in {<<"Svg">>, <<"svg">>} THEN <<"SVG">>
  ELSE IF f = <<"jpg">> THEN <<"JPG">>
  ELSE f

\* the most bytes a version-40 symbol holds at error correction H
QR_MAX_BYTES == 1273

\* the number of write() calls that img.save needs for one image
Chunks == 2

\* a variant with one exception class per failure
GenErrorKind_PerFailure(reason) ==
  IF reason = "invalid_url" THEN "InvalidURLError"
  ELSE IF reason = "unsupported_format" THEN "UnsupportedFormatError"
  ELSE "QRGenerationError"

\* the exception class of the three raise statements of generate_qr_code
GenErrorKind(reason) == "QRGenerationError"

\* the image that qr.make_image renders
Image(a) == [url |-> a.url.s, format |-> str_upper(a.format.s), style |-> a.style]

NoImage == [url |-> <<>>, format |-> <<>>, style |-> ""]

OldImage == [url |-> <<"old">>, format |-> <<"PNG">>, style |-> "default"]

\* the bytes of a completely saved image, as the chunks that are written
FullContent(img) == [k \in 1..Chunks |-> [img |-> img, k |-> k]]

Absent == [exists |-> FALSE, content |-> <<>>]

\* os.path.dirname(output_path) or '.'
Dirname(path) == IF path = "d/b.png" THEN "d" ELSE "."

\* os.path.abspath(output_path), for the working directory /cwd
Abspath(path) == IF path = "d/b.png" THEN "/cwd/d/b.png" ELSE "/cwd/a.png"

(***************************************************************************)
(* The inputs of validate_url: a candidate URL is the concatenation of an  *)
(* optional scheme, "//", userinfo, host, port, path, query and fragment.  *)
(***************************************************************************)

MaxPathSegs == 1

RECURSIVE Segs(_)
\* k path segments "/p"
Segs(k) == IF k = 0 THEN <<>> ELSE <<"/", "p">> \o Segs(k - 1)

SchemeParts == {<<>>, <<"http", ":">>, <<"HTTP", ":">>, <<"https", ":">>,
                <<"ftp", ":">>, <<"javascript", ":">>, <<"file", ":">>}

SlashParts == {<<>>, <<"/", "/">>}

UserParts == {<<>>, <<"u", "@">>}

HostParts == {<<>>,
              <<"example", ".", "com">>,
              <<"EXAMPLE", ".", "com">>,
              <<"b{uuml}cher", ".", "de">>,
              <<"localhost">>,
              <<"127", ".", "0", ".", "0", ".", "1">>,
              <<"10", ".", "0", ".", "0", ".", "1">>,
              <<"192", ".", "168", ".", "1", ".", "1">>,
              <<"1", ".", "1", ".", "1", ".", "1">>,
              <<"{fw127}", ".", "0", ".", "0", ".", "1">>,
              <<"[", ":", ":", "1", "]">>,
              <<"[", ":", ":", "1">>,
              <<".", "com">>,
              <<"example", ".", "com{NUL}">>}

PortParts == {<<>>, <<":", "8080">>, <<":", "0">>, <<":", "99999">>}

PathParts == {Segs(k) : k \in 0..MaxPathSegs} \cup
             {<<"/">>, <<"/", "a{x2029}">>, <<"/", "a{x2030}">>}

QueryParts == {<<>>, <<"?", "q=1">>}

FragmentParts == {<<>>, <<"#", "top">>}

Inputs ==
  {None} \cup
  {Str(sc \o sl \o us \o ho \o po \o pa \o qu \o fr) :
     sc \in SchemeParts, sl \in SlashParts, us \in UserParts, ho \in HostParts,
     po \in PortParts, pa \in PathParts, qu \in QueryParts, fr \in FragmentParts}

(***************************************************************************)
(* The arguments of generate_qr_code.                                      *)
(***************************************************************************)

GenUrls ==
  {None, Str(<<>>),
   Str(<<"example", ".", "com">>),
   Str(<<"javascript", ":", "example", ".", "com">>),
   Str(<<"http", ":", "/", "/", "b{uuml}cher", ".", "de">>),
   Str(<<"http", ":", "/", "/", "u", "@", "example", ".", "com">>)} \cup
  {Str(sc \o <<"/", "/">> \o ho \o po \o pa \o fr) :
     sc \in {<<"http", ":">>, <<"HTTP", ":">>, <<"ftp", ":">>},
     ho \in {<<"example", ".", "com">>, <<"xn--bcher-kva", ".", "de">>,
             <<"localhost">>, <<"127", ".", "0", ".", "0", ".", "1">>},
     po \in {<<>>, <<":", "8080">>},
     pa \in {<<>>, <<"/", "p">>, <<"/", "a{x2030}">>},
     fr \in {<<>>, <<"#", "top">>}}

GenFormats == {Str(<<"PNG">>), Str(<<"png">>), Str(<<"SVG">>), Str(<<"Svg">>),
               Str(<<"JPG">>), None}

\* "bad" stands for colours or sizes that make_image refuses
GenStyles == {"default", "bad"}

FilePaths == {"a.png", "d/b.png"}

\* "" stands for output_path=None and for the empty string, both falsy
GenPaths == {""} \cup FilePaths

GenArgs == [url : GenUrls, format : GenFormats, style : GenStyles, output_path : GenPaths]

NoArgs == [url |-> None, format |-> None, style |-> "default", output_path |-> ""]

OldFile == [exists |-> TRUE, content |-> FullContent(OldImage)]

Procs == {1, 2}

(***************************************************************************)
(* State                                                                   *)
(***************************************************************************)

VARIABLES
  vpc,    \* validate_url: "start" when called, "done" when it returned or raised
  url,    \* the argument of the validate_url call
  vres,   \* what the call returned or raised
  gpc,    \* per caller, the position in generate_qr_code
  garg,   \* per caller, the arguments of its generate_qr_code call
  gres,   \* per caller, what its call returned or raised
  pos,    \* per caller, the chunks it has written to its open file
  created,\* per caller, whether its open() created the file
  fs0,    \* per caller, the files and directories when it was called
  files,  \* the file system: path -> [exists, content]
  dirs,   \* the file system: the directories that exist
  users,  \* the user table: the row with id i is users[i]
  session,\* the id of the user the client's session is logged in as, 0 for none
  now,    \* the time in seconds
  tokens, \* the password-reset tokens that forgot_password has issued
  last,   \* the last request to /api, its response, and the state before it
  dpc,    \* per caller, the position in delete_qr_code_file
  darg,   \* per caller, the filename passed to delete_qr_code_file
  dres    \* per caller, what delete_qr_code_file returned or raised

vvars == <<vpc, url, vres>>

gvars == <<gpc, garg, gres, pos, created, fs0, files, dirs>>

avars == <<users, session, now, tokens, last>>

dvars == <<dpc, darg, dres>>

vars == <<vpc, url, vres, gpc, garg, gres, pos, created, fs0, files, dirs,
          users, session, now, tokens, last, dpc, darg, dres>>

NoResult == [kind |-> "none", reason |-> "", value |-> <<>>]

NoGenResult == [kind |-> "none", reason |-> "", cause |-> "", bytes |-> NoImage, path |-> ""]

GenRaise(kind, reason, cause) ==
  [kind |-> kind, reason |-> reason, cause |-> cause, bytes |-> NoImage, path |-> ""]

\* no generate_qr_code call is in progress
GenIdle ==
  /\ gpc = [p \in Procs |-> "idle"]
  /\ garg = [p \in Procs |-> NoArgs]
  /\ gres = [p \in Procs |-> NoGenResult]
  /\ pos = [p \in Procs |-> 0]
  /\ created = [p \in Procs |-> FALSE]
  /\ files = [f \in FilePaths |-> Absent]
  /\ dirs = {"."}
  /\ fs0 = [p \in Procs |-> [files |-> files, dirs |-> dirs]]

NoToken == [form |-> "none", uid |-> 0, ts |-> 0]

NoRequest ==
  [op |-> "none", email |-> "", password |-> "", token |-> NoToken, at |-> 0,
   status |-> 0, keys |-> {}, text |-> "", users0 |-> <<>>, session0 |-> 0]

\* no request to /api has been made and no user is registered
AuthIdle ==
  /\ users = <<>>
  /\ session = 0
  /\ now = 0
  /\ tokens = {}
  /\ last = NoRequest

NoDelResult == [ret |-> "none", exc |-> "none"]

\* no delete_qr_code_file call is in progress
DelIdle ==
  /\ dpc = [p \in Procs |-> "idle"]
  /\ darg = [p \in Procs |-> ""]
  /\ dres = [p \in Procs |-> NoDelResult]

\* a caller has passed a candidate URL to validate_url
Init ==
  /\ vpc = "start"
  /\ url \in Inputs
  /\ vres = NoResult
  /\ GenIdle
  /\ AuthIdle
  /\ DelIdle

\* validate_url runs to its return or raise
Validate ==
  /\ vpc = "start"
  /\ vres' = validate_url(url)
  /\ vpc' = "done"
  /\ UNCHANGED url
  /\ UNCHANGED gvars
  /\ UNCHANGED <<avars, dvars>>

\* the caller passes the URL that validate_url returned to validate_url again
Revalidate ==
  /\ vpc = "done"
  /\ vres.kind = "ok"
  /\ url' = Str(vres.value)
  /\ vres' = NoResult
  /\ vpc' = "start"
  /\ UNCHANGED gvars
  /\ UNCHANGED <<avars, dvars>>

Next == Validate \/ Revalidate

Spec == Init /\ [][Next]_vars

(***************************************************************************)
(* generate_qr_code, one step per statement that can fail or write.        *)
(***************************************************************************)

\* caller 1 has called generate_qr_code
InitGen ==
  /\ vpc = "idle"
  /\ url = None
  /\ vres = NoResult
  /\ gpc = [p \in Procs |-> IF p = 1 THEN "check_url" ELSE "idle"]
  /\ \E a \in GenArgs : garg = [p \in Procs |-> IF p = 1 THEN a ELSE NoArgs]
  /\ gres = [p \in Procs |-> NoGenResult]
  /\ pos = [p \in Procs |-> 0]
  /\ created = [p \in Procs |-> FALSE]
  /\ dirs \in {{"."}, {".", "d"}}
  /\ files \in [FilePaths -> {Absent, OldFile}]
  /\ \A f \in FilePaths : files[f].exists => Dirname(f) \in dirs
  /\ fs0 = [p \in Procs |-> [files |-> files, dirs |-> dirs]]
  /\ AuthIdle
  /\ DelIdle

Finish_(p, r) ==
  /\ gpc' = [gpc EXCEPT ![p] = "done"]
  /\ gres' = [gres EXCEPT ![p] = r]

\* lines 108-111
CheckUrl(p) ==
  /\ gpc[p] = "check_url"
  /\ IF garg[p].url.ty # "str"
     THEN Finish_(p, GenRaise("TypeError", "uncaught", "re.match"))
     ELSE IF ~_validate_url(garg[p].url.s)
     THEN Finish_(p, GenRaise(GenErrorKind("invalid_url"), "invalid_url", ""))
     ELSE gpc' = [gpc EXCEPT ![p] = "check_format"] /\ UNCHANGED gres
  /\ UNCHANGED <<garg, pos, created, fs0, files, dirs>>
  /\ UNCHANGED vvars
  /\ UNCHANGED <<avars, dvars>>

\* a variant that prepares the output directory before it checks the format
CheckFormat_CreatesDirectoryFirst(p) ==
  /\ gpc[p] = "check_format"
  /\ dirs' = IF garg[p].output_path # ""
             THEN dirs \cup {Dirname(garg[p].output_path)} ELSE dirs
  /\ IF garg[p].format.ty # "str"
     THEN Finish_(p, GenRaise("AttributeError", "uncaught", "format.upper"))
     ELSE IF str_upper(garg[p].format.s) \notin SUPPORTED_QR_FORMATS
     THEN Finish_(p, GenRaise(GenErrorKind("unsupported_format"), "unsupported_format", ""))
     ELSE gpc' = [gpc EXCEPT ![p] = "encode"] /\ UNCHANGED gres
  /\ UNCHANGED <<garg, pos, created, fs0, files>>
  /\ UNCHANGED vvars
  /\ UNCHANGED <<avars, dvars>>

\* lines 113-117
CheckFormat(p) ==
  /\ gpc[p] = "check_format"
  /\ IF garg[p].format.ty # "str"
     THEN Finish_(p, GenRaise("AttributeError", "uncaught", "format.upper"))
     ELSE IF str_upper(garg[p].format.s) \notin SUPPORTED_QR_FORMATS
     THEN Finish_(p, GenRaise(GenErrorKind("unsupported_format"), "unsupported_format", ""))
     ELSE gpc' = [gpc EXCEPT ![p] = "encode"] /\ UNCHANGED gres
  /\ UNCHANGED <<garg, pos, created, fs0, files, dirs>>
  /\ UNCHANGED vvars
  /\ UNCHANGED <<avars, dvars>>

\* a variant that saves into one buffer shared by all calls, so that a call
\* returns what earlier calls left in the buffer followed by its own image
Encode_SharedBuffer(p) ==
  /\ gpc[p] = "encode"
  /\ IF garg[p].style = "bad" \/ StrLen(garg[p].url.s) > QR_MAX_BYTES
     THEN Finish_(p, GenRaise(GenErrorKind("generation"), "generation", "encode"))
     ELSE IF garg[p].output_path = ""
     THEN Finish_(p, [kind |-> "ok", reason |-> "", cause |-> "",
                      bytes |-> IF \E q \in Procs \ {p} : gres[q].bytes # NoImage
                                THEN [Image(garg[p]) EXCEPT !.url = <<"old">> \o @]
                                ELSE Image(garg[p]),
                      path |-> ""])
     ELSE gpc' = [gpc EXCEPT ![p] = "makedirs"] /\ UNCHANGED gres
  /\ UNCHANGED <<garg, pos, created, fs0, files, dirs>>
  /\ UNCHANGED vvars
  /\ UNCHANGED <<avars, dvars>>

\* lines 119-134, 140-149, 155-158: encode, render, and return the bytes when
\* no output path was given
Encode(p) ==
  /\ gpc[p] = "encode"
  /\ IF garg[p].style = "bad" \/ StrLen(garg[p].url.s) > QR_MAX_BYTES
     THEN Finish_(p, GenRaise(GenErrorKind("generation"), "generation", "encode"))
     ELSE IF garg[p].output_path = ""
     THEN Finish_(p, [kind |-> "ok", reason |-> "", cause |-> "",
                      bytes |-> Image(garg[p]), path |-> ""])
     ELSE gpc' = [gpc EXCEPT ![p] = "makedirs"] /\ UNCHANGED gres
  /\ UNCHANGED <<garg, pos, created, fs0, files, dirs>>
  /\ UNCHANGED vvars
  /\ UNCHANGED <<avars, dvars>>

\* a variant that takes the parent directory to exist and creates nothing
MakeDirs_AssumesDirectory(p) ==
  /\ gpc[p] = "makedirs"
  /\ gpc' = [gpc EXCEPT ![p] = "open"]
  /\ UNCHANGED <<garg, gres, pos, created, fs0, files, dirs>>
  /\ UNCHANGED vvars
  /\ UNCHANGED <<avars, dvars>>

\* lines 137, 152: os.makedirs(..., exist_ok=True); creating a missing
\* directory can fail with OSError
MakeDirs(p) ==
  /\ gpc[p] = "makedirs"
  /\ \/ /\ dirs' = dirs \cup {Dirname(garg[p].output_path)}
        /\ gpc' = [gpc EXCEPT ![p] = "open"]
        /\ UNCHANGED gres
     \/ /\ Dirname(garg[p].output_path) \notin dirs
        /\ Finish_(p, GenRaise(GenErrorKind("generation"), "generation", "makedirs"))
        /\ UNCHANGED dirs
  /\ UNCHANGED <<garg, pos, created, fs0, files>>
  /\ UNCHANGED vvars
  /\ UNCHANGED <<avars, dvars>>

\* a variant whose failing open has already truncated the file
OpenFile_TruncatesOnFailure(p) ==
  /\ gpc[p] = "open"
  /\ files' = [files EXCEPT ![garg[p].output_path] = [exists |-> TRUE, content |-> <<>>]]
  /\ created' = [created EXCEPT ![p] = ~files[garg[p].output_path].exists]
  /\ pos' = [pos EXCEPT ![p] = 0]
  /\ \/ gpc' = [gpc EXCEPT ![p] = "write"] /\ UNCHANGED gres
     \/ Finish_(p, GenRaise(GenErrorKind("generation"), "generation", "open"))
  /\ UNCHANGED <<garg, fs0, dirs>>
  /\ UNCHANGED vvars
  /\ UNCHANGED <<avars, dvars>>

\* lines 138, 153: img.save opens the output path for writing, which
\* truncates an existing file; open can fail with OSError
OpenFile(p) ==
  /\ gpc[p] = "open"
  /\ \/ /\ files' = [files EXCEPT ![garg[p].output_path] = [exists |-> TRUE, content |-> <<>>]]
        /\ created' = [created EXCEPT ![p] = ~files[garg[p].output_path].exists]
        /\ pos' = [pos EXCEPT ![p] = 0]
        /\ gpc' = [gpc EXCEPT ![p] = "write"]
        /\ UNCHANGED gres
     \/ /\ Finish_(p, GenRaise(GenErrorKind("generation"), "generation", "open"))
        /\ UNCHANGED <<files, created, pos>>
  /\ UNCHANGED <<garg, fs0, dirs>>
  /\ UNCHANGED vvars
  /\ UNCHANGED <<avars, dvars>>

\* a variant for a file opened in append mode: every write goes to the end
WriteAt_Append(content, k, chunk) == Append(content, chunk)

\* the file after this caller has written chunk k at its own offset
WriteAt(content, k, chunk) ==
  [i \in 1..(IF Len(content) > k THEN Len(content) ELSE k) |->
     IF i = k THEN chunk
     ELSE IF i <= Len(content) THEN content[i]
     ELSE [img |-> NoImage, k |-> i]]

\* lines 138-139, 153-154: img.save writes the image; a write can fail with
\* OSError (disk full), which leaves what was written so far, except that
\* the PNG writer removes a file that its own open created.  A write to a
\* file that another caller has removed meanwhile goes to the unlinked file
\* and leaves the path absent.
WriteChunk(p) ==
  LET path == garg[p].output_path
      k == pos[p] + 1
  IN  /\ gpc[p] = "write"
      /\ \/ /\ files' = IF files[path].exists
                         THEN [files EXCEPT ![path] =
                                 [exists |-> TRUE,
                                  content |-> WriteAt(files[path].content, k,
                                                      [img |-> Image(garg[p]), k |-> k])]]
                         ELSE files
            /\ pos' = [pos EXCEPT ![p] = k]
            /\ IF k = Chunks
               THEN Finish_(p, [kind |-> "ok", reason |-> "", cause |-> "",
                                bytes |-> NoImage, path |-> Abspath(path)])
               ELSE UNCHANGED <<gpc, gres>>
         \/ /\ Finish_(p, GenRaise(GenErrorKind("generation"), "generation", "write"))
            /\ UNCHANGED <<files, pos>>
         \/ /\ created[p] /\ Image(garg[p]).format = <<"PNG">>
            /\ Finish_(p, GenRaise(GenErrorKind("generation"), "generation", "write"))
            /\ files' = [files EXCEPT ![path] = Absent]
            /\ UNCHANGED pos
      /\ UNCHANGED <<garg, created, fs0, dirs>>
      /\ UNCHANGED vvars
      /\ UNCHANGED <<avars, dvars>>
  /\ UNCHANGED <<avars, dvars>>

NextGen == \E p \in {1} : CheckUrl(p) \/ CheckFormat(p) \/ Encode(p) \/ MakeDirs(p)
                          \/ OpenFile(p) \/ WriteChunk(p)

SpecGen == InitGen /\ [][NextGen]_vars

(***************************************************************************)
(* Two requests call generate_qr_code at the same time; the service has no *)
(* lock, so their statements interleave in any order.                      *)
(***************************************************************************)

ConcUrls == {Str(<<"http", ":", "/", "/", "example", ".", "com">>),
             Str(<<"http", ":", "/", "/", "example", ".", "com", "/", "p">>)}

ConcFormats == {Str(<<"PNG">>), Str(<<"SVG">>)}

ConcArgs == [url : ConcUrls, format : ConcFormats, style : {"default"}, output_path : GenPaths]

InitConc ==
  /\ vpc = "idle"
  /\ url = None
  /\ vres = NoResult
  /\ gpc = [p \in Procs |-> "check_url"]
  /\ garg \in [Procs -> ConcArgs]
  /\ gres = [p \in Procs |-> NoGenResult]
  /\ pos = [p \in Procs |-> 0]
  /\ created = [p \in Procs |-> FALSE]
  /\ dirs = {"."}
  /\ files \in [FilePaths -> {Absent, OldFile}]
  /\ \A f \in FilePaths : files[f].exists => Dirname(f) \in dirs
  /\ fs0 = [p \in Procs |-> [files |-> files, dirs |-> dirs]]
  /\ AuthIdle
  /\ DelIdle

NextConc == \E p \in Procs : CheckUrl(p) \/ CheckFormat(p) \/ Encode(p) \/ MakeDirs(p)
                             \/ OpenFile(p) \/ WriteChunk(p)

SpecConc == InitConc /\ [][NextConc]_vars

(***************************************************************************)
(* The authentication routes (app/routes/auth.py).  One client talks to    *)
(* the application; its requests are handled one at a time.  An email or a *)
(* password of "" stands for a missing or empty JSON field (both falsy).   *)
(* A password-reset token is a record [form, uid, ts]: "signed" tokens are *)
(* the ones the application issued for user uid at time ts, "tampered" is  *)
(* payload.timestamp.signature with a signature that does not verify,      *)
(* "malformed" is a string without a timestamp part.                       *)
(***************************************************************************)

Emails == {"", "bad-email", "a@x.com", "b@x.com"}

Passwords == {"", "short", "password1", "password2"}

\* len(password)
PwLen(pw) == CASE pw = "" -> 0 [] pw = "short" -> 5 [] OTHER -> 9

MIN_PASSWORD_LENGTH == 8

\* re.match(r"[^@]+@[^@]+\.[^@]+", email)
email_re_match(email) == email \in {"a@x.com", "b@x.com"}

\* the instants at which requests arrive, in seconds
ClockValues == {0, 3600, 3601}

MAX_AGE == 3600

\* the cap on the number of reset tokens issued in one behaviour
MaxTokens == 2

\* User(email=email, password=hashed_password): the row stores what it is given
User(email, password) == [email |-> email, password |-> password]

\* bcrypt.generate_password_hash(password).decode('utf-8')
generate_password_hash(pw) == [bcrypt |-> pw]

check_password_hash_AnyPassword(h, pw) == TRUE

\* bcrypt.check_password_hash(user.password, password)
check_password_hash(h, pw) == h = [bcrypt |-> pw]

\* User.query.filter_by(email=email).first(): the id of the first row with
\* that email, 0 for None
filter_by_email(email) ==
  IF \E i \in 1..Len(users) : users[i].email = email
  THEN CHOOSE i \in 1..Len(users) :
         /\ users[i].email = email
         /\ \A j \in 1..(i - 1) : users[j].email # email
  ELSE 0

\* User.query.get(user_id): the id of the row, 0 for None
query_get(user_id) == IF user_id \in 1..Len(users) THEN user_id ELSE 0

\* URLSafeTimedSerializer(SECRET_KEY).dumps(user.id, salt='password-reset-salt')
dumps(user_id) == [form |-> "signed", uid |-> user_id, ts |-> now]

\* s.loads(token, salt='password-reset-salt', max_age=3600): a token without
\* a timestamp part raises BadSignature, a bad signature on a token with one
\* raises BadTimeSignature, an age above max_age raises SignatureExpired
loads(token) ==
  CASE token.form = "malformed" -> [exc |-> "BadSignature", value |-> 0]
    [] token.form = "tampered" -> [exc |-> "BadTimeSignature", value |-> 0]
    [] token.form = "signed" /\ now - token.ts > MAX_AGE ->
         [exc |-> "SignatureExpired", value |-> 0]
    [] OTHER -> [exc |-> "none", value |-> token.uid]

\* the tokens a client can put in the URL: the ones issued, and forgeries
PresentedTokens ==
  tokens \cup {[form |-> "tampered", uid |-> 1, ts |-> now],
               [form |-> "malformed", uid |-> 0, ts |-> 0]}

\* what login_manager.unauthorized() answers: a redirect to login_view when
\* the manager in use has one, 401 when it has none
UnauthorizedStatuses == {302, 401}

\* jsonify(body), status
Respond(op, email, password, token, status, keys, text) ==
  last' = [op |-> op, email |-> email, password |-> password, token |-> token,
           at |-> now, status |-> status, keys |-> keys, text |-> text,
           users0 |-> users, session0 |-> session]

AuthFrame == UNCHANGED <<vvars, gvars, dvars>>

register_NoExistenceCheck(email, password) ==
  /\ Len(users) < 3
  /\ IF email = "" \/ password = ""
     THEN /\ Respond("register", email, password, NoToken, 400, {"error"},
                     "Email and password are required.")
          /\ UNCHANGED users
     ELSE IF ~email_re_match(email)
     THEN /\ Respond("register", email, password, NoToken, 400, {"error"},
                     "Invalid email format.")
          /\ UNCHANGED users
     ELSE IF PwLen(password) < MIN_PASSWORD_LENGTH
     THEN /\ Respond("register", email, password, NoToken, 400, {"error"},
                     "Password must be at least 8 characters long.")
          /\ UNCHANGED users
     ELSE \/ /\ users' = Append(users, User(email, generate_password_hash(password)))
             /\ Respond("register", email, password, NoToken, 201, {"message"},
                        "Registration successful. Please log in.")
          \/ /\ UNCHANGED users
             /\ Respond("register", email, password, NoToken, 500, {"error"},
                        "An unexpected error occurred during registration. Please try again later.")
  /\ UNCHANGED <<session, now, tokens>>
  /\ AuthFrame

\* POST /api/register, lines 25-63
register(email, password) ==
  /\ IF email = "" \/ password = ""
     THEN /\ Respond("register", email, password, NoToken, 400, {"error"},
                     "Email and password are required.")
          /\ UNCHANGED users
     ELSE IF ~email_re_match(email)
     THEN /\ Respond("register", email, password, NoToken, 400, {"error"},
                     "Invalid email format.")
          /\ UNCHANGED users
     ELSE IF PwLen(password) < MIN_PASSWORD_LENGTH
     THEN /\ Respond("register", email, password, NoToken, 400, {"error"},
                     "Password must be at least 8 characters long.")
          /\ UNCHANGED users
     ELSE IF filter_by_email(email) # 0
     THEN /\ Respond("register", email, password, NoToken, 409, {"error"},
                     "User with this email already exists.")
          /\ UNCHANGED users
     ELSE \* db.session.commit() succeeds, or raises and is rolled back
          \/ /\ users' = Append(users, User(email, generate_password_hash(password)))
             /\ Respond("register", email, password, NoToken, 201, {"message"},
                        "Registration successful. Please log in.")
          \/ /\ UNCHANGED users
             /\ Respond("register", email, password, NoToken, 500, {"error"},
                        "An unexpected error occurred during registration. Please try again later.")
  /\ UNCHANGED <<session, now, tokens>>
  /\ AuthFrame

\* POST /api/login, lines 65-90
login(email, password) ==
  /\ IF email = "" \/ password = ""
     THEN /\ Respond("login", email, password, NoToken, 400, {"error"},
                     "Email and password are required.")
          /\ UNCHANGED session
     ELSE IF /\ filter_by_email(email) # 0
             /\ check_password_hash(users[filter_by_email(email)].password, password)
     THEN \* login_user(user)
          /\ session' = filter_by_email(email)
          /\ Respond("login", email, password, NoToken, 200,
                     {"message", "user_id", "email"}, "Login successful.")
     ELSE /\ Respond("login", email, password, NoToken, 401, {"error"},
                     "Invalid email or password.")
          /\ UNCHANGED session
  /\ UNCHANGED <<users, now, tokens>>
  /\ AuthFrame

\* POST /api/logout, lines 92-105: login_required answers for the view when
\* the session has no authenticated user
logout ==
  /\ IF session = 0
     THEN /\ \E st \in UnauthorizedStatuses :
               Respond("logout", "", "", NoToken, st, {}, "unauthorized")
          /\ UNCHANGED session
     ELSE \* logout_user()
          /\ session' = 0
          /\ Respond("logout", "", "", NoToken, 200, {"message"}, "Logout successful.")
  /\ UNCHANGED <<users, now, tokens>>
  /\ AuthFrame

GenericForgotText ==
  "If an account with that email exists, a password reset link has been sent to your inbox."

forgot_password_RevealsUnknownEmail(email) ==
  /\ IF email = ""
     THEN /\ Respond("forgot_password", email, "", NoToken, 400, {"error"},
                     "Email is required.")
          /\ UNCHANGED tokens
     ELSE IF filter_by_email(email) # 0
     THEN /\ Cardinality(tokens \cup {dumps(filter_by_email(email))}) <= MaxTokens
          /\ tokens' = tokens \cup {dumps(filter_by_email(email))}
          /\ Respond("forgot_password", email, "", NoToken, 200, {"message"},
                     GenericForgotText)
     ELSE /\ Respond("forgot_password", email, "", NoToken, 404, {"error"},
                     "No account with that email.")
          /\ UNCHANGED tokens
  /\ UNCHANGED <<users, session, now>>
  /\ AuthFrame

\* POST /api/forgot_password, lines 107-147: the reset link is written to
\* the log, from where it reaches the account's owner
forgot_password(email) ==
  /\ IF email = ""
     THEN /\ Respond("forgot_password", email, "", NoToken, 400, {"error"},
                     "Email is required.")
          /\ UNCHANGED tokens
     ELSE IF filter_by_email(email) # 0
     THEN /\ Cardinality(tokens \cup {dumps(filter_by_email(email))}) <= MaxTokens
          /\ tokens' = tokens \cup {dumps(filter_by_email(email))}
          /\ Respond("forgot_password", email, "", NoToken, 200, {"message"},
                     GenericForgotText)
     ELSE /\ Respond("forgot_password", email, "", NoToken, 200, {"message"},
                     GenericForgotText)
          /\ UNCHANGED tokens
  /\ UNCHANGED <<users, session, now>>
  /\ AuthFrame

\* POST /api/reset_password/<token>, lines 149-191
reset_password(token, new_password) ==
  /\ IF new_password = ""
     THEN /\ Respond("reset_password", "", new_password, token, 400, {"error"},
                     "New password is required.")
          /\ UNCHANGED users
     ELSE IF PwLen(new_password) < MIN_PASSWORD_LENGTH
     THEN /\ Respond("reset_password", "", new_password, token, 400, {"error"},
                     "New password must be at least 8 characters long.")
          /\ UNCHANGED users
     ELSE IF loads(token).exc = "SignatureExpired"
     THEN /\ Respond("reset_password", "", new_password, token, 400, {"error"},
                     "The password reset link has expired.")
          /\ UNCHANGED users
     ELSE IF loads(token).exc = "BadTimeSignature"
     THEN /\ Respond("reset_password", "", new_password, token, 400, {"error"},
                     "The password reset link is invalid or malformed.")
          /\ UNCHANGED users
     ELSE IF loads(token).exc # "none"
     THEN \* any other exception reaches the outer except Exception
          /\ Respond("reset_password", "", new_password, token, 500, {"error"},
                     "An unexpected error occurred during password reset. Please try again later.")
          /\ UNCHANGED users
     ELSE IF query_get(loads(token).value) = 0
     THEN /\ Respond("reset_password", "", new_password, token, 404, {"error"},
                     "User not found for the provided token.")
          /\ UNCHANGED users
     ELSE \* db.session.commit() succeeds, or raises and is rolled back
          \/ /\ users' = [users EXCEPT ![loads(token).value].password =
                                          generate_password_hash(new_password)]
             /\ Respond("reset_password", "", new_password, token, 200, {"message"},
                        "Your password has been reset successfully. You can now log in with your new password.")
          \/ /\ UNCHANGED users
             /\ Respond("reset_password", "", new_password, token, 500, {"error"},
                        "An unexpected error occurred during password reset. Please try again later.")
  /\ UNCHANGED <<session, now, tokens>>
  /\ AuthFrame

\* time passes between two requests
Tick ==
  /\ \E t \in ClockValues : t > now /\ now' = t
  /\ UNCHANGED <<users, session, tokens, last>>
  /\ AuthFrame

InitAuth ==
  /\ vpc = "idle"
  /\ url = None
  /\ vres = NoResult
  /\ GenIdle
  /\ AuthIdle
  /\ DelIdle

NextAuth ==
  \/ \E email \in Emails, password \in Passwords : register(email, password)
  \/ \E email \in Emails, password \in Passwords : login(email, password)
  \/ logout
  \/ \E email \in Emails : forgot_password(email)
  \/ \E token \in PresentedTokens, new_password \in Passwords :
       reset_password(token, new_password)
  \/ Tick

SpecAuth == InitAuth /\ [][NextAuth]_vars

(***************************************************************************)
(* delete_qr_code_file (app/utils/helpers.py), called by two requests at   *)
(* the same time; the function takes no lock, so the calls' file system    *)
(* operations interleave in any order.                                     *)
(***************************************************************************)

QR_CODE_STORAGE_DIR == "qr_codes_storage"

Filenames == {"b.png", "c.png"}

\* os.path.join(QR_CODE_STORAGE_DIR, filename)
StoragePath(filename) ==
  CASE filename = "b.png" -> "qr_codes_storage/b.png"
    [] filename = "c.png" -> "qr_codes_storage/c.png"

StoragePaths == {StoragePath(f) : f \in Filenames}

DelFrame == UNCHANGED <<vvars, avars, gpc, garg, gres, pos, created, fs0>>

\* get_qr_code_storage_path, lines 129-146, called at line 163:
\* os.makedirs(QR_CODE_STORAGE_DIR, exist_ok=True)
get_qr_code_storage_path(p) ==
  /\ dpc[p] = "path"
  /\ dirs' = dirs \cup {QR_CODE_STORAGE_DIR}
  /\ dpc' = [dpc EXCEPT ![p] = "exists"]
  /\ UNCHANGED <<files, darg, dres>>
  /\ DelFrame

\* line 165: if os.path.exists(file_path); lines 169-171: return True
path_exists(p) ==
  /\ dpc[p] = "exists"
  /\ IF files[StoragePath(darg[p])].exists
     THEN /\ dpc' = [dpc EXCEPT ![p] = "remove"]
          /\ UNCHANGED dres
     ELSE /\ dpc' = [dpc EXCEPT ![p] = "done"]
          /\ dres' = [dres EXCEPT ![p] = [ret |-> "True", exc |-> "none"]]
  /\ UNCHANGED <<files, dirs, darg>>
  /\ DelFrame

\* lines 166-168: os.remove(file_path); return True; lines 172-177: except
\* OSError: return False.  os.remove raises FileNotFoundError when the file
\* is no longer there and PermissionError when the process may not remove it.
remove(p) ==
  /\ dpc[p] = "remove"
  /\ dpc' = [dpc EXCEPT ![p] = "done"]
  /\ IF files[StoragePath(darg[p])].exists
     THEN \/ /\ files' = [files EXCEPT ![StoragePath(darg[p])] = Absent]
             /\ dres' = [dres EXCEPT ![p] = [ret |-> "True", exc |-> "none"]]
          \/ /\ UNCHANGED files
             /\ dres' = [dres EXCEPT ![p] = [ret |-> "False", exc |-> "PermissionError"]]
     ELSE /\ UNCHANGED files
          /\ dres' = [dres EXCEPT ![p] = [ret |-> "False", exc |-> "FileNotFoundError"]]
  /\ UNCHANGED <<dirs, darg>>
  /\ DelFrame

\* two requests have called delete_qr_code_file; the storage directory
\* exists whenever a stored file does
InitDel ==
  /\ vpc = "idle"
  /\ url = None
  /\ vres = NoResult
  /\ gpc = [p \in Procs |-> "idle"]
  /\ garg = [p \in Procs |-> NoArgs]
  /\ gres = [p \in Procs |-> NoGenResult]
  /\ pos = [p \in Procs |-> 0]
  /\ created = [p \in Procs |-> FALSE]
  /\ files \in [StoragePaths -> {Absent, OldFile}]
  /\ dirs \in {{"."}, {".", QR_CODE_STORAGE_DIR}}
  /\ (\E f \in StoragePaths : files[f].exists) => QR_CODE_STORAGE_DIR \in dirs
  /\ fs0 = [p \in Procs |-> [files |-> files, dirs |-> dirs]]
  /\ AuthIdle
  /\ dpc = [p \in Procs |-> "path"]
  /\ darg \in [Procs -> Filenames]
  /\ dres = [p \in Procs |-> NoDelResult]

NextDel == \E p \in Procs : get_qr_code_storage_path(p) \/ path_exists(p) \/ remove(p)

SpecDel == InitDel /\ [][NextDel]_vars

(***************************************************************************)
(* Properties of validate_url (checked under Spec)                         *)
(***************************************************************************)

\* the string is a literal IP address in a private-use, loopback or
\* link-local range
IsInternalIpLiteral(h) == is_private(h) \/ is_loopback(h) \/ is_link_local(h)

\* the URL that validate_url parses: the input, with "http://" put in front
\* when the input has no scheme
WithScheme(s) == IF urlparse(s).scheme = <<>> THEN HttpPrefix \o s ELSE s

\* C1: every string that validate_url returns starts with the lower-case
\* scheme http or https, has a non-empty hostname, and its hostname is not a
\* literal private-use, loopback or link-local IP address.
C1_ReturnedUrlIsSafe ==
  (vpc = "done" /\ vres.kind = "ok") =>
    LET out == vres.value
        p == urlparse(out)
    IN  /\ Len(out) >= 2
        /\ <<out[1], out[2]>> \in {<<"http", ":">>, <<"https", ":">>}
        /\ ~p.raises
        /\ hostname(p) # <<>>
        /\ ~IsInternalIpLiteral(hostname(p))

\* an input with an upper-case scheme and an IDN host was accepted
C1_Witness ==
  /\ vpc = "done" /\ vres.kind = "ok"
  /\ url.s[1] = "HTTP"
  /\ Contains(url.s, "b{uuml}cher")

\* the host of the input after the IDN conversion is a literal loopback or
\* private address
ConvertedHostIsPrivate(s) ==
  LET p == urlparse(SynthUrl(s, urlparse(s)))
      enc == idna_encode(hostname(p))
  IN  /\ ~urlparse(s).raises /\ ~p.raises
      /\ hostname(p) # <<>>
      /\ enc.ok
      /\ (is_private(enc.value) \/ is_loopback(enc.value))

\* C2: an input whose host is, after the IDN conversion, a literal loopback
\* or private address is rejected with InvalidURLError, also when the raw
\* host is not such a literal and only the converted host is.
C2_PrivateHostRejected ==
  (vpc = "done" /\ url.ty = "str" /\ ConvertedHostIsPrivate(url.s)) =>
    vres.kind = "InvalidURLError"

\* a host written with full-width digits was converted to 127.0.0.1 and
\* rejected by the private-IP check
C2_Witness ==
  /\ vpc = "done"
  /\ Contains(url.s, "{fw127}")
  /\ ~_is_private_ip(hostname(urlparse(url.s)))
  /\ vres.kind = "InvalidURLError" /\ vres.reason = "private"

\* C3: an input with a scheme other than http and https (compared without
\* case) makes validate_url raise InvalidURLError.
C3_OtherSchemeRaisesInvalidURLError ==
  (vpc = "done" /\ url.ty = "str"
     /\ urlparse(url.s).scheme # <<>>
     /\ str_lower(urlparse(url.s).scheme) \notin ALLOWED_SCHEMES) =>
    vres.kind = "InvalidURLError"

\* C5: the URL that validate_url returns has the port, path, query and
\* fragment of the input.
C5_ComponentsPreserved ==
  (vpc = "done" /\ vres.kind = "ok") =>
    LET pin == urlparse(WithScheme(url.s))
        pout == urlparse(vres.value)
    IN  /\ hostinfo(pout.netloc).port = hostinfo(pin.netloc).port
        /\ pout.path = pin.path
        /\ pout.query = pin.query
        /\ pout.fragment = pin.fragment

\* C6: validate_url accepts every URL it returns and returns it unchanged.
C6_Idempotent ==
  (vpc = "done" /\ vres.kind = "ok") => validate_url(Str(vres.value)) = vres

\* C13: every string that validate_url returns has at most 2048 characters.
C13_OutputWithinMaxLength ==
  (vpc = "done" /\ vres.kind = "ok") => StrLen(vres.value) <= 2048

\* C14: an input of 2049 or more characters is rejected for its length,
\* whatever else is wrong with it, and an input of exactly 2048 characters is
\* not rejected for its length.
C14_LengthBoundary ==
  (vpc = "done" /\ url.ty = "str") =>
    /\ StrLen(url.s) >= 2049 =>
         (vres.kind = "InvalidURLError" /\ vres.reason = "length")
    /\ StrLen(url.s) = 2048 => vres.reason # "length"

\* an input of exactly 2048 characters was accepted
C14_Witness ==
  /\ vpc = "done" /\ url.ty = "str"
  /\ StrLen(url.s) = 2048
  /\ vres.kind = "ok"

\* the bare dotted hostnames among the inputs
BareHostnames == {<<"example", ".", "com">>, <<"EXAMPLE", ".", "com">>}

\* C15: an input that is a bare dotted hostname, without a scheme, is
\* accepted and returned with "http://" in front of it.
C15_BareHostnameGetsHttp ==
  (vpc = "done" /\ url.ty = "str" /\ url.s \in BareHostnames) =>
    vres = Return(HttpPrefix \o url.s)

\* the input example.com was returned as http://example.com
C15_Witness ==
  /\ vpc = "done"
  /\ url = Str(<<"example", ".", "com">>)
  /\ vres.kind = "ok"
  /\ vres.value = <<"http", ":", "/", "/", "example", ".", "com">>

\* validate_url puts "http://" in front of this scheme-less input
Synthesizes(s) ==
  /\ ~urlparse(s).raises
  /\ urlparse(s).scheme = <<>>
  /\ SynthUrl(s, urlparse(s)) # s

\* C16: a scheme-less input that gets the "http://" prefix is accepted only
\* if the input with "http://" written in front of it is accepted.
C16_SynthesisBypassesNothing ==
  (vpc = "done" /\ url.ty = "str" /\ Synthesizes(url.s) /\ vres.kind = "ok") =>
    validate_url(Str(HttpPrefix \o url.s)).kind = "ok"

\* the components of the input after at most one scheme synthesis
Components(s) == urlparse(SynthUrl(s, urlparse(s)))

\* the host of the input as the private-IP check reads it: converted when
\* the conversion succeeds
CheckedHost(s) ==
  IF idna_encode(hostname(Components(s))).ok
  THEN idna_encode(hostname(Components(s))).value
  ELSE hostname(Components(s))

\* the IDN step (lines 121-137) fails: the conversion fails, or it changes
\* the host and the port cannot be read
IdnStepFails(s) ==
  \/ ~idna_encode(hostname(Components(s))).ok
  \/ /\ idna_encode(hostname(Components(s))).value # hostname(Components(s))
     /\ port(Components(s)).raises

\* the earliest check, in the order of the claim, that the input u violates;
\* "" when it violates none
EarliestViolation(u) ==
  IF u.ty # "str" \/ u.s = <<>> THEN "empty"
  ELSE IF StrLen(u.s) > 2048 THEN "length"
  ELSE IF Components(u.s).scheme = <<>> \/ Components(u.s).netloc = <<>> THEN "malformed"
  ELSE IF str_lower(Components(u.s).scheme) \notin {<<"http">>, <<"https">>} THEN "scheme"
  ELSE IF hostname(Components(u.s)) = <<>> THEN "hostname"
  ELSE IF IdnStepFails(u.s) THEN "idn"
  ELSE IF is_private(CheckedHost(u.s)) \/ is_loopback(CheckedHost(u.s)) THEN "private"
  ELSE ""

\* the check that a reported reason belongs to
CheckOf(reason) == IF reason = "hostname_processing" THEN "idn" ELSE reason

\* C17: an input that violates one or more of the checks (empty or not a
\* string, length, scheme or host absent, scheme not allowed, empty hostname,
\* IDN conversion, private IP) is rejected with InvalidURLError, and the
\* reason is that of the earliest check it violates.
C17_EarliestCheckReported ==
  (vpc = "done" /\ EarliestViolation(url) # "") =>
    /\ vres.kind = "InvalidURLError"
    /\ CheckOf(vres.reason) = EarliestViolation(url)

UnicodeHost(s) ==
  /\ Contains(hostname(Components(s)), "b{uuml}cher")
  /\ idna_encode(hostname(Components(s))).ok

\* C19: an accepted input with a Unicode hostname is returned with the
\* punycode form of that hostname as its host, and the returned URL is
\* accepted again with the same host; an input that urlparse splits, that
\* passes the checks before the conversion and whose host does not convert
\* is rejected with the IDN reason.
C19_IdnRoundTrip ==
  (vpc = "done" /\ url.ty = "str") =>
    /\ (vres.kind = "ok" /\ UnicodeHost(url.s)) =>
         /\ hostname(urlparse(vres.value)) = idna_encode(hostname(Components(url.s))).value
         /\ validate_url(Str(vres.value)).kind = "ok"
         /\ hostname(urlparse(validate_url(Str(vres.value)).value)) = hostname(urlparse(vres.value))
    /\ (EarliestViolation(url) = "idn" /\ ~idna_encode(hostname(Components(url.s))).ok
          /\ ~urlparse(url.s).raises /\ ~Components(url.s).raises) =>
         (vres.kind = "InvalidURLError" /\ vres.reason = "idn")

\* C28: every URL that validate_url returns passes the URL check of
\* generate_qr_code.
C28_ValidatedUrlPassesEncoderCheck ==
  (vpc = "done" /\ vres.kind = "ok") => _validate_url(vres.value)

\* C30: the protocol-relative input //example.com/p is accepted and
\* returned as http://example.com/p.
C30_ProtocolRelativeAccepted ==
  (vpc = "done" /\ url = Str(<<"/", "/", "example", ".", "com", "/", "p">>)) =>
    vres = Return(<<"http", ":", "/", "/", "example", ".", "com", "/", "p">>)

(***************************************************************************)
(* Properties of generate_qr_code (checked under SpecGen)                  *)
(***************************************************************************)

\* the call of caller p has got past the URL check of lines 108-111
PassedUrlCheck(p) ==
  \/ gpc[p] \in {"check_format", "encode", "makedirs", "open", "write"}
  \/ gpc[p] = "done" /\ gres[p].reason # "invalid_url" /\ gres[p].cause # "re.match"

\* the spellings of PNG and SVG among the format arguments
SupportedSpellings == {<<"PNG">>, <<"png">>, <<"SVG">>, <<"Svg">>}

\* the format argument of caller p is PNG or SVG in any letter case
FormatSupported(p) ==
  garg[p].format.ty = "str" /\ garg[p].format.s \in SupportedSpellings

\* the format argument of caller p is a string outside {PNG, SVG}
FormatUnsupported(p) ==
  garg[p].format.ty = "str" /\ garg[p].format.s \notin SupportedSpellings

FailureClasses == {"invalid_url", "unsupported_format", "generation"}

\* the output file of caller p holds the complete image of its call
OutputComplete(p) ==
  files[garg[p].output_path] = [exists |-> TRUE, content |-> FullContent(Image(garg[p]))]

\* the output file of caller p is as it was when p was called
OutputUntouched(p) == files[garg[p].output_path] = fs0[p].files[garg[p].output_path]

\* C4: generate_qr_code lets no URL past its URL check that validate_url
\* rejects.
C4_EncoderRejectsWhatValidatorRejects ==
  \A p \in Procs : PassedUrlCheck(p) => validate_url(garg[p].url).kind = "ok"

\* C7: a call with a format outside {PNG, SVG} fails with the
\* unsupported-format error whatever the URL is, and a format that is PNG or
\* SVG in any letter case is not rejected by the format check.
C7_FormatGateWhateverTheUrl ==
  \A p \in Procs : gpc[p] = "done" =>
    /\ FormatUnsupported(p) => gres[p].reason = "unsupported_format"
    /\ FormatSupported(p) => gres[p].reason # "unsupported_format"

\* C7 as amended: a call with a string URL and a format outside {PNG, SVG}
\* fails with QRGenerationError, for the unsupported format when the URL
\* passes the URL check and for the invalid URL otherwise; a format that is
\* PNG or SVG in any letter case is not rejected by the format check.
C7_FormatGateAfterUrlCheck ==
  \A p \in Procs : gpc[p] = "done" =>
    /\ (FormatUnsupported(p) /\ garg[p].url.ty = "str") =>
         /\ gres[p].kind = "QRGenerationError"
         /\ gres[p].reason = IF _validate_url(garg[p].url.s)
                             THEN "unsupported_format" ELSE "invalid_url"
    /\ FormatSupported(p) => gres[p].reason # "unsupported_format"

\* a call with a URL that passes the URL check and the format JPG has failed
\* for the unsupported format, and so the format check has acted
C7_Witness ==
  \E p \in Procs :
    /\ gpc[p] = "done"
    /\ garg[p].format = Str(<<"JPG">>)
    /\ _validate_url(garg[p].url.s)
    /\ gres[p].reason = "unsupported_format"

\* C8: whatever fails in generate_qr_code, the exception that leaves the
\* call is a QRGenerationError.
C8_OnlyQRGenerationErrorEscapes ==
  \A p \in Procs :
    (gpc[p] = "done" /\ gres[p].kind # "ok") => gres[p].kind = "QRGenerationError"

C10_NoPartialFile ==
  \A p \in Procs :
    (gpc[p] = "done" /\ garg[p].output_path # "") =>
      OutputUntouched(p) \/ OutputComplete(p)

\* C10 as amended: after a call with an output path that returns, the file
\* holds the complete image; after a call that raises before img.save has
\* opened the file, the file is as it was before the call; a call that raises
\* from a failing write can leave a truncated or partly written file.
C10_NoPartialFileUnlessWriteFails ==
  \A p \in Procs :
    (gpc[p] = "done" /\ garg[p].output_path # "") =>
      /\ gres[p].kind = "ok" => OutputComplete(p)
      /\ (gres[p].kind # "ok" /\ gres[p].cause # "write") => OutputUntouched(p)

\* a call has returned after it replaced an existing file by the complete
\* image
C10_Witness ==
  \E p \in Procs :
    /\ gpc[p] = "done" /\ gres[p].kind = "ok"
    /\ garg[p].output_path # ""
    /\ fs0[p].files[garg[p].output_path].exists
    /\ OutputComplete(p)

\* C12: a call that returns gives back one of two results, chosen by the
\* output path alone: with an output path the parent directory exists
\* afterwards, the file holds the complete image and the absolute path is
\* returned; without one the image bytes are returned and no file or
\* directory has changed.
C12_OneResultByOutputPath ==
  \A p \in Procs :
    (gpc[p] = "done" /\ gres[p].kind = "ok") =>
      IF garg[p].output_path # ""
      THEN /\ gres[p].path = Abspath(garg[p].output_path)
           /\ gres[p].bytes = NoImage
           /\ Dirname(garg[p].output_path) \in dirs
           /\ OutputComplete(p)
      ELSE /\ gres[p].bytes = Image(garg[p])
           /\ gres[p].path = ""
           /\ files = fs0[p].files
           /\ dirs = fs0[p].dirs

\* a call has returned the path of a file in a directory that did not exist
\* when it was called
C12_Witness ==
  \E p \in Procs :
    /\ gpc[p] = "done" /\ gres[p].kind = "ok"
    /\ garg[p].output_path = "d/b.png"
    /\ "d" \notin fs0[p].dirs
    /\ "d" \in dirs
    /\ OutputComplete(p)

\* C29: a call that is rejected for an invalid URL or an unsupported format
\* has created no directory and has created or changed no file.
C29_RejectionLeavesFilesystem ==
  \A p \in Procs :
    (gpc[p] = "done" /\ gres[p].reason \in {"invalid_url", "unsupported_format"}) =>
      /\ files = fs0[p].files
      /\ dirs = fs0[p].dirs

\* a call with an output path in a directory that does not exist was
\* rejected for its format, and the directory still does not exist
C29_Witness ==
  \E p \in Procs :
    /\ gpc[p] = "done" /\ gres[p].reason = "unsupported_format"
    /\ garg[p].output_path = "d/b.png"
    /\ "d" \notin dirs

(***************************************************************************)
(* Properties of concurrent generate_qr_code calls (checked under SpecConc)*)
(***************************************************************************)

\* the call of caller p was given an output path and has returned
ReturnedPath(p) == gpc[p] = "done" /\ gres[p].kind = "ok" /\ garg[p].output_path # ""

\* the call of caller p has not yet reached the open of img.save
BeforeOpen(p) == gpc[p] \in {"check_url", "check_format", "encode", "makedirs", "open"}

\* every block of the output file of p is the block at that place of the
\* complete output of p or of q
BlocksOfEither(p, q) ==
  LET f == files[garg[p].output_path]
  IN  /\ f.exists
      /\ Len(f.content) = Chunks
      /\ \A k \in 1..Chunks :
           f.content[k] \in {FullContent(Image(garg[p]))[k], FullContent(Image(garg[q]))[k]}

ReturnedBytes(p) == gpc[p] = "done" /\ gres[p].kind = "ok" /\ garg[p].output_path = ""

EmailRegistered(r) == \E i \in 1..Len(r.users0) : r.users0[i].email = r.email

C22_RegisterSuccessBody ==
  (last.op = "register" /\ last.status = 201) =>
    /\ {"message", "user_id"} \subseteq last.keys
    /\ \E i \in 1..Len(users) :
         /\ users[i].email = last.email
         /\ check_password_hash(users[i].password, last.password)

\* the request's email belongs to a user whose stored hash is the hash of
\* the request's password
CredentialsMatch(r) ==
  \E i \in 1..Len(r.users0) :
    /\ r.users0[i].email = r.email
    /\ r.users0[i].password = [bcrypt |-> r.password]

C24_LogoutAlwaysSucceeds ==
  (last.op = "logout") =>
    /\ last.status = 200
    /\ "message" \in last.keys
    /\ session = 0

\* the request's token was issued by the application and is at most
\* MAX_AGE seconds old when the request arrives
TokenUsable(r) == r.token.form = "signed" /\ r.at - r.token.ts <= 3600

\* C25: a reset request changes the table only with a usable token, and
\* then only by setting that user's password to the new one; a request
\* with a new password of valid length and an expired, tampered or
\* malformed token is answered 400 and changes nothing.
C25_ResetOnlyWithUsableToken ==
  (last.op = "reset_password") =>
    /\ (users # last.users0) =>
         /\ TokenUsable(last)
         /\ users = [last.users0 EXCEPT ![last.token.uid].password =
                                           [bcrypt |-> last.password]]
    /\ (PwLen(last.password) >= MIN_PASSWORD_LENGTH /\ ~TokenUsable(last)) =>
         /\ last.status = 400
         /\ users = last.users0

\* C26: a forgot_password request with a non-empty email gets the same 200
\* body whether or not the email is registered, and changes neither the
\* user table nor the session.
C26_ForgotPasswordGeneric ==
  (last.op = "forgot_password" /\ last.email # "") =>
    /\ last.status = 200
    /\ last.keys = {"message"}
    /\ last.text = GenericForgotText
    /\ users = last.users0
    /\ session = last.session0

C26_Witness ==
  /\ last.op = "forgot_password"
  /\ last.email = "b@x.com"
  /\ ~EmailRegistered(last)
  /\ Len(users) = 1
  /\ session = 1

(***************************************************************************)
(* Properties of delete_qr_code_file (checked under SpecDel)               *)
(***************************************************************************)

\* C27: a call that has returned gave True unless the operating system
\* refused the removal; in particular two calls for the same filename that
\* meet no such refusal both return True, and the file is then absent.
C27_DeleteIdempotentUnderConcurrency ==
  \A p \in Procs :
    (dpc[p] = "done") =>
      /\ (dres[p].ret = "False") => dres[p].exc = "PermissionError"
      /\ (dres[p].ret = "True" /\ \A q \in Procs : dpc[q] = "done") =>
           ~files[StoragePath(darg[p])].exists

=============================================================================
